---- MODULE Spec2Model ----
(***************************************************************************)
(* Model of the ingestion / normalisation pipeline of                      *)
(* wind_farm_analysis.ipynb: detect_header_row, extract_station_name,      *)
(* read_clean_csv, the discovery cell (glob), the assembly cell            *)
(* (pd.concat), the normalisation cell (fillna, to_datetime,               *)
(* drop_duplicates) and the station filter cell.                           *)
(*                                                                         *)
(* Text is modelled character by character: a Python str is a sequence of  *)
(* one-character strings, a file is the sequence of its lines (without     *)
(* the line terminators, which none of the scanned conditions read and     *)
(* which strip() removes).  Python's None is the empty sequence and a      *)
(* value x returned in its place is <<x>>, so that None differs from "".    *)
(***************************************************************************)
EXTENDS Integers, Sequences, FiniteSets, TLC

----------------------------------------------------------------------------
(* Python str primitives used by the notebook                              *)

UpperChars == <<"A","B","C","D","E","F","G","H","I","J","K","L","M",
                "N","O","P","Q","R","S","T","U","V","W","X","Y","Z">>
LowerChars == <<"a","b","c","d","e","f","g","h","i","j","k","l","m",
                "n","o","p","q","r","s","t","u","v","w","x","y","z">>
Whitespace == {" ", "\t", "\n", "\r"}
Digits     == <<"0","1","2","3","4","5","6","7","8","9">>

None == << >>
Some(x) == <<x>>

Range(s) == {s[i] : i \in DOMAIN s}

\* the case mappings of the letters
ToLower == [c \in Range(UpperChars) |->
              LowerChars[CHOOSE i \in DOMAIN UpperChars : UpperChars[i] = c]]
ToUpper == [c \in Range(LowerChars) |->
              UpperChars[CHOOSE i \in DOMAIN LowerChars : LowerChars[i] = c]]

\* str.lower() / str.upper(), one character
LowerChar(c) == IF c \in DOMAIN ToLower THEN ToLower[c] ELSE c
UpperChar(c) == IF c \in DOMAIN ToUpper THEN ToUpper[c] ELSE c

lower(s) == [i \in DOMAIN s |-> LowerChar(s[i])]
upper(s) == [i \in DOMAIN s |-> UpperChar(s[i])]

\* sub occurs in s at position i
occurs_at(s, sub, i) == \A k \in DOMAIN sub : s[i + k - 1] = sub[k]

RECURSIVE find_from(_, _, _)
find_from(s, sub, i) ==
    IF i + Len(sub) - 1 > Len(s) THEN 0
    ELSE IF occurs_at(s, sub, i) THEN i
    ELSE find_from(s, sub, i + 1)

\* s.find(sub) + 1: the 1-based position of the first occurrence, 0 if none
find(s, sub) == find_from(s, sub, 1)

\* sub in s
contains(s, sub) == find(s, sub) # 0

\* s.startswith(prefix)
startswith(s, prefix) ==
    Len(prefix) <= Len(s) /\ SubSeq(s, 1, Len(prefix)) = prefix

\* s.split(sep): the pieces between successive non-overlapping occurrences
RECURSIVE split(_, _)
split(s, sep) ==
    LET i == find(s, sep)
    IN IF i = 0 THEN <<s>>
       ELSE <<SubSeq(s, 1, i - 1)>> \o split(SubSeq(s, i + Len(sep), Len(s)), sep)

\* s.strip(): leading and trailing whitespace removed
strip(s) ==
    LET keep == {i \in DOMAIN s : s[i] \notin Whitespace}
    IN IF keep = {} THEN << >>
       ELSE LET a == CHOOSE i \in keep : \A j \in keep : i <= j
                b == CHOOSE i \in keep : \A j \in keep : j <= i
            IN SubSeq(s, a, b)

----------------------------------------------------------------------------
(* String literals of the notebook                                         *)

str_date    == <<"d","a","t","e">>
str_wdsp    == <<"w","d","s","p">>
str_station == <<"s","t","a","t","i","o","n">>
str_Station_Name == <<"S","t","a","t","i","o","n"," ","N","a","m","e",":">>
str_NaN     == <<"N","a","N">>
str_ROCHES_POINT == <<"R","O","C","H","E","S"," ","P","O","I","N","T">>
str_comma   == <<",">>

----------------------------------------------------------------------------
(* detect_header_row                                                       *)

\* the condition of the if inside the loop
\* (variant: or in place of and)
IsHeaderLineAny(line) ==
    contains(lower(line), str_date) \/ contains(lower(line), str_wdsp)
IsHeaderLine(line) ==
    contains(lower(line), str_date) /\ contains(lower(line), str_wdsp)

\* the for loop, entered with the current row_number
RECURSIVE detect_loop(_, _)
detect_loop(file, row_number) ==
    IF row_number >= Len(file) THEN None
    ELSE IF IsHeaderLine(file[row_number + 1]) THEN Some(row_number)
    ELSE detect_loop(file, row_number + 1)

\* (variant: the row counter returned at end of file)
detect_header_row_counter(file) ==
    IF detect_loop(file, 0) = None THEN Some(Len(file)) ELSE detect_loop(file, 0)
detect_header_row(file) == detect_loop(file, 0)

----------------------------------------------------------------------------
(* extract_station_name                                                    *)

\* the return expression for a line that starts with the label
\* (variant: .upper() left out)
station_of_line_raw(line) ==
    strip(split(line, str_Station_Name)[2])
station_of_line(line) ==
    upper(strip(split(line, str_Station_Name)[2]))

RECURSIVE station_loop(_, _)
station_loop(file, i) ==
    IF i > Len(file) THEN None
    ELSE IF startswith(file[i], str_Station_Name) THEN Some(station_of_line(file[i]))
    ELSE station_loop(file, i + 1)

extract_station_name(file) == station_loop(file, 1)

----------------------------------------------------------------------------
(* Values: outcomes of calls, table cells, tables                          *)

\* a call either returns a value or raises an exception
Return(v)       == [kind |-> "return", val |-> v]
Raise(exc, msg) == [kind |-> "raise", exc |-> exc, msg |-> msg]

\* a cell of a DataFrame: NaN (float missing marker), None, NaT, a number,
\* a str, or a Timestamp
Cell(kind, val) == [kind |-> kind, val |-> val]
NaN      == Cell("nan", << >>)
PyNone   == Cell("none", << >>)
NaT      == Cell("nat", << >>)
Num(n)   == Cell("num", n)
Str(s)   == Cell("str", s)
Ts(t)    == Cell("ts", t)

\* pd.isnull on one cell
isnull(c) == c.kind \in {"nan", "none", "nat"}

\* equality of two cells as duplicated() sees it: missing markers of one
\* kind compare equal
CellEq(a, b) == a.kind = b.kind /\ a.val = b.val
RowEq(r, q)  == Len(r) = Len(q) /\ \A j \in DOMAIN r : CellEq(r[j], q[j])

\* a row label of an index
IntLabel(i) == [kind |-> "int", val |-> i]
KeyLabel(k) == [kind |-> "key", val |-> k]
RangeIndex(n) == [i \in 1..n |-> IntLabel(i - 1)]

\* a DataFrame: column names, row labels, rows (each aligned with columns)
DataFrame(columns, index, rows) ==
    [columns |-> columns, index |-> index, rows |-> rows]

\* position of a column name, 0 if absent
ColIdx(columns, name) ==
    IF \E j \in DOMAIN columns : columns[j] = name
    THEN CHOOSE j \in DOMAIN columns : columns[j] = name
    ELSE 0

----------------------------------------------------------------------------
(* pd.read_csv(file_path, skiprows=header_row, low_memory=False)           *)

\* skip_blank_lines=True: empty and whitespace-only lines are not records
IsBlankLine(line) == \A i \in DOMAIN line : line[i] \in Whitespace

\* the default na_values (those that the alphabet of the modelled files
\* can spell)
NA_VALUES == { << >>, str_NaN, <<"N","A">>, <<"n","a","n">>,
               <<"n","u","l","l">>, <<"N","U","L","L">>, <<"N","o","n","e">> }

IsIntLit(s) == s # << >> /\ \A i \in DOMAIN s : s[i] \in Range(Digits)

DigitVal(c) == (CHOOSE i \in DOMAIN Digits : Digits[i] = c) - 1

RECURSIVE ToInt(_)
ToInt(s) ==
    IF s = << >> THEN 0
    ELSE 10 * ToInt(SubSeq(s, 1, Len(s) - 1)) + DigitVal(s[Len(s)])

\* duplicate header names get .1, .2, ... appended (ind, ind.1, ind.2)
mangle_dupe_cols(names) ==
    [j \in DOMAIN names |->
        LET before == Cardinality({i \in 1..(j - 1) : names[i] = names[j]})
        IN IF before = 0 THEN names[j]
           ELSE names[j] \o <<".", Digits[before + 1]>>]

\* one column's raw fields converted: NA strings become NaN; a column whose
\* other fields are all integer literals becomes numeric, else stays str
convert_column(raw) ==
    LET present == {i \in DOMAIN raw : raw[i] \notin NA_VALUES}
        numeric == \A i \in present : IsIntLit(raw[i])
    IN [i \in DOMAIN raw |->
          IF i \notin present THEN NaN
          ELSE IF numeric THEN Num(ToInt(raw[i]))
          ELSE Str(raw[i])]

\* a record padded with empty fields to the table width
pad(fields, width) ==
    fields \o [i \in 1..(width - Len(fields)) |-> << >>]

read_csv(file, skiprows) ==
    LET records == SelectSeq(SubSeq(file, skiprows + 1, Len(file)),
                             LAMBDA l : ~IsBlankLine(l))
    IN IF records = << >>
       THEN Raise("EmptyDataError", <<"No columns to parse from file">>)
       ELSE
       LET names == mangle_dupe_cols(split(records[1], str_comma))
           data  == [i \in 1..(Len(records) - 1) |->
                        split(records[i + 1], str_comma)]
           n     == Len(names)
           \* the first data record may be wider than the header: its extra
           \* leading fields become the index (implicit index)
           width == IF data # << >> /\ Len(data[1]) > n THEN Len(data[1]) ELSE n
           lead  == width - n
       IN IF \E i \in DOMAIN data : Len(data[i]) > width
          THEN Raise("ParserError", <<"Error tokenizing data">>)
          ELSE
          LET padded == [i \in DOMAIN data |-> pad(data[i], width)]
              cols   == [j \in 1..n |->
                           convert_column([i \in DOMAIN data |-> padded[i][lead + j]])]
              index  == IF lead = 0 THEN RangeIndex(Len(data))
                        ELSE [i \in DOMAIN data |-> KeyLabel(SubSeq(padded[i], 1, lead))]
          IN Return(DataFrame(names, index,
                    [i \in DOMAIN data |-> [j \in 1..n |-> cols[j][i]]]))

----------------------------------------------------------------------------
(* read_clean_csv                                                          *)

\* df[name] = value: the column is overwritten, or appended when new
set_column(df, name, cell) ==
    LET j == ColIdx(df.columns, name)
    IN IF j = 0
       THEN DataFrame(Append(df.columns, name), df.index,
                      [i \in DOMAIN df.rows |-> Append(df.rows[i], cell)])
       ELSE DataFrame(df.columns, df.index,
                      [i \in DOMAIN df.rows |-> [df.rows[i] EXCEPT ![j] = cell]])

\* the station name as a cell value
station_cell(station_name) ==
    IF station_name = None THEN PyNone ELSE Str(station_name[1])

\* (variant: the check of header_row left out, the file read from its top)
read_clean_csv_unchecked(fs, file_path) ==
    LET station_name == extract_station_name(fs[file_path])
        header_row   == detect_header_row(fs[file_path])
        r == read_csv(fs[file_path], IF header_row = None THEN 0 ELSE header_row[1])
    IN IF r.kind = "raise" THEN r
       ELSE Return(set_column(r.val, str_station, station_cell(station_name)))

\* (variant: a file without station name is refused)
read_clean_csv_strict(fs, file_path) ==
    LET station_name == extract_station_name(fs[file_path])
        header_row   == detect_header_row(fs[file_path])
    IN IF station_name = None
       THEN Raise("ValueError", <<"No station name found in ", file_path>>)
       ELSE IF header_row = None
       THEN Raise("ValueError", <<"No valid header found in ", file_path>>)
       ELSE LET r == read_csv(fs[file_path], header_row[1])
            IN IF r.kind = "raise" THEN r
               ELSE Return(set_column(r.val, str_station, station_cell(station_name)))

\* fs: the files by path; file_path: a path of fs
read_clean_csv(fs, file_path) ==
    LET station_name == extract_station_name(fs[file_path])
        header_row   == detect_header_row(fs[file_path])
    IN IF header_row = None
       THEN Raise("ValueError", <<"No valid header found in ", file_path>>)
       ELSE LET r == read_csv(fs[file_path], header_row[1])
            IN IF r.kind = "raise" THEN r
               ELSE Return(set_column(r.val, str_station, station_cell(station_name)))

----------------------------------------------------------------------------
(* pd.concat(all_data, ignore_index=True)                                  *)

RECURSIVE union_columns(_, _)
\* the columns of the frames in order of first appearance (sort=False)
union_columns(frames, acc) ==
    IF frames = << >> THEN acc
    ELSE LET new == SelectSeq(frames[1].columns,
                              LAMBDA c : ColIdx(acc, c) = 0)
         IN union_columns(Tail(frames), acc \o new)

\* a row of df laid out on the given columns; NaN where df lacks the column
reindex_row(df, i, columns) ==
    [j \in DOMAIN columns |->
        LET k == ColIdx(df.columns, columns[j])
        IN IF k = 0 THEN NaN ELSE df.rows[i][k]]

RECURSIVE concat_rows(_, _)
concat_rows(frames, columns) ==
    IF frames = << >> THEN << >>
    ELSE [i \in DOMAIN frames[1].rows |-> reindex_row(frames[1], i, columns)]
         \o concat_rows(Tail(frames), columns)

RECURSIVE concat_index(_)
concat_index(frames) ==
    IF frames = << >> THEN << >>
    ELSE frames[1].index \o concat_index(Tail(frames))

\* the row labels of the result, ignore_index=True
\* (variant: ignore_index left out, the frames' own labels kept)
new_index_keep(frames, n) == concat_index(frames)
new_index(frames, n) == RangeIndex(n)

\* the columns of the result
\* (variant: join="inner", the columns every frame has)
result_columns_inner(frames) ==
    SelectSeq(frames[1].columns,
              LAMBDA c : \A f \in DOMAIN frames : ColIdx(frames[f].columns, c) # 0)
result_columns(frames) == union_columns(frames, << >>)

\* (variant: an empty list gives an empty table)
concat_lenient(frames) ==
    IF frames = << >>
    THEN Return(DataFrame(<< >>, << >>, << >>))
    ELSE LET columns == result_columns(frames)
             rows    == concat_rows(frames, columns)
         IN Return(DataFrame(columns, new_index(frames, Len(rows)), rows))
concat(frames) ==
    IF frames = << >>
    THEN Raise("ValueError", <<"No objects to concatenate">>)
    ELSE LET columns == result_columns(frames)
             rows    == concat_rows(frames, columns)
         IN Return(DataFrame(columns, new_index(frames, Len(rows)), rows))

----------------------------------------------------------------------------
(* my_big_dataset.fillna("NaN", inplace=True)                              *)

\* (variant: inplace=True left out and the result dropped)
fillna_not_inplace(df, value) == df
fillna(df, value) ==
    DataFrame(df.columns, df.index,
              [i \in DOMAIN df.rows |->
                 [j \in DOMAIN df.rows[i] |->
                    IF isnull(df.rows[i][j]) THEN value ELSE df.rows[i][j]]])

----------------------------------------------------------------------------
(* pd.to_datetime(column, format='%d-%b-%Y %H:%M')                         *)

MonthAbbr == << <<"j","a","n">>, <<"f","e","b">>, <<"m","a","r">>,
                <<"a","p","r">>, <<"m","a","y">>, <<"j","u","n">>,
                <<"j","u","l">>, <<"a","u","g">>, <<"s","e","p">>,
                <<"o","c","t">>, <<"n","o","v">>, <<"d","e","c">> >>

\* strings that parse to NaT whatever the format
nat_strings == { <<"N","a","T">>, <<"n","a","t">>, <<"N","A","T">>,
                 <<"n","a","n">>, <<"N","a","N">>, <<"N","A","N">> }

IsLeap(y) == (y % 4 = 0 /\ y % 100 # 0) \/ y % 400 = 0
DaysInMonth(y, m) ==
    IF m = 2 THEN (IF IsLeap(y) THEN 29 ELSE 28)
    ELSE IF m \in {4, 6, 9, 11} THEN 30 ELSE 31

lstrip(s) ==
    LET keep == {i \in DOMAIN s : s[i] \notin Whitespace}
    IN IF keep = {} THEN << >>
       ELSE SubSeq(s, CHOOSE i \in keep : \A j \in keep : i <= j, Len(s))

\* (variant: the months counted from 0)
month_number_from_zero(abbr) ==
    IF \E m \in DOMAIN MonthAbbr : MonthAbbr[m] = abbr
    THEN (CHOOSE m \in DOMAIN MonthAbbr : MonthAbbr[m] = abbr) - 1
    ELSE 0
\* the number of the month with this (lower-case) abbreviation, 0 if none
month_number(abbr) ==
    IF \E m \in DOMAIN MonthAbbr : MonthAbbr[m] = abbr
    THEN CHOOSE m \in DOMAIN MonthAbbr : MonthAbbr[m] = abbr
    ELSE 0

\* one or two digits
IsShortNum(s) == IsIntLit(s) /\ Len(s) <= 2

\* the string matched against %d-%b-%Y %H:%M (month names matched without
\* regard to case, the blank matching a run of whitespace, the whole string
\* consumed); None when it does not match or names no calendar day
strptime(s) ==
    LET dash == split(s, <<"-">>)
    IN IF Len(dash) # 3 \/ Len(dash[3]) < 4 THEN None
       ELSE
       LET dd   == dash[1]
           mon  == month_number(lower(dash[2]))
           yyyy == SubSeq(dash[3], 1, 4)
           tail == SubSeq(dash[3], 5, Len(dash[3]))
           hm   == split(lstrip(tail), <<":">>)
       IN IF /\ IsShortNum(dd) /\ ToInt(dd) >= 1
             /\ mon # 0
             /\ IsIntLit(yyyy)
             /\ tail # << >> /\ tail[1] \in Whitespace
             /\ Len(hm) = 2
             /\ IsShortNum(hm[1]) /\ ToInt(hm[1]) <= 23
             /\ IsShortNum(hm[2]) /\ ToInt(hm[2]) <= 59
             /\ ToInt(dd) <= DaysInMonth(ToInt(yyyy), mon)
          THEN Some([year   |-> ToInt(yyyy),
                     month  |-> mon,
                     day    |-> ToInt(dd),
                     hour   |-> ToInt(hm[1]),
                     minute |-> ToInt(hm[2])])
          ELSE None

\* a number written with at least w digits, zero-padded
RECURSIVE zfill(_, _)
zfill(n, w) ==
    IF n < 10 /\ w <= 1 THEN <<Digits[n + 1]>>
    ELSE Append(zfill(n \div 10, w - 1), Digits[(n % 10) + 1])

\* %b on output: the abbreviation with its first letter in upper case
month_abbr_out(m) == [MonthAbbr[m] EXCEPT ![1] = UpperChar(@)]

\* a Timestamp written with the pattern %d-%b-%Y %H:%M
strftime(t) ==
    zfill(t.day, 2) \o <<"-">> \o month_abbr_out(t.month) \o <<"-">>
    \o zfill(t.year, 4) \o <<" ">> \o zfill(t.hour, 2) \o <<":">> \o zfill(t.minute, 2)

\* one element converted: None when the conversion raises
\* (variant: errors="ignore", what does not parse is left as it is)
datetime_of_cell_ignore(c) ==
    IF isnull(c) THEN Some(NaT)
    ELSE IF c.kind # "str" THEN Some(c)
    ELSE IF c.val = << >> \/ c.val \in nat_strings THEN Some(NaT)
    ELSE LET t == strptime(c.val)
         IN IF t = None THEN Some(c) ELSE Some(Ts(t[1]))
datetime_of_cell(c) ==
    IF isnull(c) THEN Some(NaT)
    ELSE IF c.kind # "str" THEN None
    ELSE IF c.val = << >> \/ c.val \in nat_strings THEN Some(NaT)
    ELSE LET t == strptime(c.val)
         IN IF t = None THEN None ELSE Some(Ts(t[1]))

\* my_big_dataset['date'] = pd.to_datetime(my_big_dataset['date'], format=...)
to_datetime_date(df) ==
    LET j == ColIdx(df.columns, str_date)
    IN IF j = 0 THEN Raise("KeyError", <<"date">>)
       ELSE LET parsed == [i \in DOMAIN df.rows |-> datetime_of_cell(df.rows[i][j])]
            IN IF \E i \in DOMAIN parsed : parsed[i] = None
               THEN Raise("ValueError", <<"time data doesn't match format">>)
               ELSE Return(DataFrame(df.columns, df.index,
                        [i \in DOMAIN df.rows |->
                            [df.rows[i] EXCEPT ![j] = parsed[i][1]]]))

----------------------------------------------------------------------------
(* my_big_dataset.drop_duplicates(inplace=True)                            *)

\* duplicated(keep='first'): an earlier row equals row i
\* (variant: keep='last', a later row equals row i)
duplicated_last(df, i) == \E k \in (i + 1)..Len(df.rows) : RowEq(df.rows[k], df.rows[i])
duplicated(df, i) == \E k \in 1..(i - 1) : RowEq(df.rows[k], df.rows[i])

RECURSIVE kept_positions(_, _)
\* the positions from i on that are not duplicated, in order
kept_positions(df, i) ==
    IF i > Len(df.rows) THEN << >>
    ELSE (IF duplicated(df, i) THEN << >> ELSE <<i>>) \o kept_positions(df, i + 1)

\* the rows at the given positions, each with its label
take(df, positions) ==
    DataFrame(df.columns,
              [k \in DOMAIN positions |-> df.index[positions[k]]],
              [k \in DOMAIN positions |-> df.rows[positions[k]]])

\* (variant: keep='last')
drop_duplicates_keep_last(df) ==
    take(df, SelectSeq([i \in DOMAIN df.rows |-> i], LAMBDA i : ~duplicated_last(df, i)))
\* (variant: the rows kept come out last first)
drop_duplicates_reversed(df) ==
    LET kept == kept_positions(df, 1)
    IN take(df, [k \in DOMAIN kept |-> kept[Len(kept) + 1 - k]])
\* (variant: ignore_index=True, the rows kept are relabelled 0, 1, ...)
drop_duplicates_ignore_index(df) ==
    LET kept == take(df, kept_positions(df, 1))
    IN DataFrame(kept.columns, RangeIndex(Len(kept.rows)), kept.rows)
drop_duplicates(df) == take(df, kept_positions(df, 1))

----------------------------------------------------------------------------
(* my_big_dataset[my_big_dataset['station'] == 'ROCHES POINT']             *)

RECURSIVE matching_positions(_, _, _, _)
matching_positions(df, j, value, i) ==
    IF i > Len(df.rows) THEN << >>
    ELSE (IF df.rows[i][j].kind = "str" /\ df.rows[i][j].val = value
          THEN <<i>> ELSE << >>) \o matching_positions(df, j, value, i + 1)

\* (variant: the mask negated, station != value)
filter_station_ne(df, value) ==
    LET j == ColIdx(df.columns, str_station)
    IN IF j = 0 THEN Raise("KeyError", <<"station">>)
       ELSE Return(take(df, SelectSeq([i \in DOMAIN df.rows |-> i],
                        LAMBDA i : ~(df.rows[i][j].kind = "str" /\ df.rows[i][j].val = value))))
filter_station(df, value) ==
    LET j == ColIdx(df.columns, str_station)
    IN IF j = 0 THEN Raise("KeyError", <<"station">>)
       ELSE Return(take(df, matching_positions(df, j, value, 1)))

----------------------------------------------------------------------------
(* The files                                                               *)

\* paths: the directories below the working directory, the file name
Path(dir, name, ext) == [dir |-> dir, name |-> name, ext |-> ext]
path_hly275   == Path(<<"data", "hly275">>, "hly275", "csv")
path_hly1075  == Path(<<"data", "hly1075">>, "hly1075", "csv")
path_licence  == Path(<<"data", "hly275">>, "licence", "txt")
CsvPaths == {path_hly275, path_hly1075}

\* lines of a station export
line_station_mace   == str_Station_Name \o <<" ","m","a","c","e"," ","h","e","a","d">>
line_station_roches == str_Station_Name \o <<" ","R","o","c","h","e","s"," ","P","o","i","n","t"," ">>
line_station_twice  == str_Station_Name \o <<"x"," ">> \o str_Station_Name \o <<"y">>
line_station_indent == <<" ">> \o str_Station_Name \o <<"q">>
line_legend_date    == <<"d","a","t","e",":"," ","u","t","c">>
line_legend_wdsp    == <<"w","d","s","p",":"," ","k","t">>
line_header_core    == <<"d","a","t","e",",","w","d","s","p">>
line_header_vis     == <<"d","a","t","e",",","w","d","s","p",",","v","i","s">>
line_header_caps    == <<"D","a","t","e",",","i","n","d",",","W","D","S","P",",","i","n","d">>
line_blank          == << >>
str_13_aug_2003_0100 == <<"1","3","-","a","u","g","-","2","0","0","3"," ","0","1",":","0","0">>
str_31_feb_2003_0100 == <<"3","1","-","f","e","b","-","2","0","0","3"," ","0","1",":","0","0">>
row_7     == str_13_aug_2003_0100 \o <<",","7">>
row_7_9   == str_13_aug_2003_0100 \o <<",","7",",","9">>
row_nodate == <<",","8">>
row_baddate == str_31_feb_2003_0100 \o <<",","7">>

\* bounds of the model
MaxLines == 3
MaxRows  == 2
MaxFileRows == 3

\* all sequences over S of length exactly n, and of length at most n
SeqsOfLen(S, n) == [1..n -> S]
SeqsUpTo(S, n)  == UNION {SeqsOfLen(S, k) : k \in 0..n}

\* the test cell's file: any lines
LinePool == { line_station_mace, line_station_twice, line_station_indent,
              line_legend_date, line_legend_wdsp, line_header_core,
              line_header_caps, row_7, row_7_9, line_blank }

\* the corpus: a metadata preamble, then (unless the file is malformed) a
\* header line and data rows
preamble_mace   == <<line_station_mace, line_legend_date>>
preamble_roches == <<line_station_roches>>
preamble_nameless == <<line_legend_wdsp>>
Preambles == { preamble_mace, preamble_roches, preamble_nameless }
Exports   == { preamble_mace \o <<line_header_core>>,
               preamble_mace \o <<line_header_vis>>,
               preamble_roches \o <<line_header_core>>,
               preamble_roches \o <<line_header_vis>>,
               preamble_roches \o <<line_header_caps>>,
               preamble_nameless \o <<line_header_core>> }
RowPool   == { row_7, row_7_9, row_nodate, row_baddate }

\* the well-formed files with exactly n data rows, the malformed files
FilesWithRows(n) ==
    { head \o rows : head \in Exports, rows \in SeqsOfLen(RowPool, n) }
FilesWithoutHeader == Preambles

licence_file == << <<"l","i","c","e","n","c","e">> >>

----------------------------------------------------------------------------
(* State                                                                   *)

VARIABLES
    fs,                \* the files on disk, by path
    pc,                \* the statement the run is at
    error,             \* the exception that ended the run, if any
    station_name,      \* test cell
    header_row,        \* test cell
    cleaned_data,      \* test cell
    file_list,         \* discovery cell
    acc,               \* the list the comprehension is building
    all_data,          \* assembly cell
    my_big_dataset,    \* assembly and normalisation cells
    rosses_point_data  \* filter cell

vars == <<fs, pc, error, station_name, header_row, cleaned_data,
          file_list, acc, all_data, my_big_dataset, rosses_point_data>>

\* a Python name is unbound until assigned
Unbound  == [bound |-> FALSE]
Bound(v) == [bound |-> TRUE, val |-> v]

NoError == << >>

AllUnbound ==
    /\ error = NoError
    /\ station_name = Unbound
    /\ header_row = Unbound
    /\ cleaned_data = Unbound
    /\ file_list = Unbound
    /\ acc = << >>
    /\ all_data = Unbound
    /\ my_big_dataset = Unbound
    /\ rosses_point_data = Unbound

----------------------------------------------------------------------------
(* The test cell: the three functions called on one file                   *)

InitTest ==
    /\ \E file \in SeqsUpTo(LinePool, MaxLines) : fs = (path_hly275 :> file)
    /\ pc = "test_extract"
    /\ AllUnbound

\* station_name = extract_station_name(file_path)
TestExtract ==
    /\ pc = "test_extract"
    /\ station_name' = Bound(extract_station_name(fs[path_hly275]))
    /\ pc' = "test_detect"
    /\ UNCHANGED <<fs, error, header_row, cleaned_data, file_list, acc,
                   all_data, my_big_dataset, rosses_point_data>>

\* header_row = detect_header_row(file_path)
TestDetect ==
    /\ pc = "test_detect"
    /\ header_row' = Bound(detect_header_row(fs[path_hly275]))
    /\ pc' = "test_load"
    /\ UNCHANGED <<fs, error, station_name, cleaned_data, file_list, acc,
                   all_data, my_big_dataset, rosses_point_data>>

\* cleaned_data = read_clean_csv(file_path)
TestLoad ==
    /\ pc = "test_load"
    /\ LET r == read_clean_csv(fs, path_hly275)
       IN IF r.kind = "raise"
          THEN /\ error' = <<r>>
               /\ pc' = "error"
               /\ UNCHANGED cleaned_data
          ELSE /\ cleaned_data' = Bound(r.val)
               /\ pc' = "done"
               /\ UNCHANGED error
    /\ UNCHANGED <<fs, station_name, header_row, file_list, acc,
                   all_data, my_big_dataset, rosses_point_data>>

NextTest == TestExtract \/ TestDetect \/ TestLoad

SpecTest == InitTest /\ [][NextTest]_vars

----------------------------------------------------------------------------
(* The run: discovery, assembly, normalisation, filter                     *)

\* a corpus of two station files holds at most MaxRows data rows in all, a
\* corpus of one station file at most MaxFileRows
Init ==
    /\ \/ fs = (path_licence :> licence_file)
       \/ \E p \in CsvPaths :
            \E f \in FilesWithoutHeader \cup
                     UNION {FilesWithRows(n) : n \in 0..MaxFileRows} :
               fs = (path_licence :> licence_file) @@ (p :> f)
       \/ \E n1 \in 0..MaxRows : \E n2 \in 0..(MaxRows - n1) :
            \E f1 \in FilesWithRows(n1) \cup (IF n1 = 0 THEN FilesWithoutHeader ELSE {}) :
            \E f2 \in FilesWithRows(n2) \cup (IF n2 = 0 THEN FilesWithoutHeader ELSE {}) :
               fs = (path_licence :> licence_file)
                    @@ (path_hly275 :> f1) @@ (path_hly1075 :> f2)
    /\ pc = "discover"
    /\ AllUnbound

\* glob.glob("data/**/*.csv", recursive=True) matches a path
glob_matches(p) == p.dir # << >> /\ p.dir[1] = "data" /\ p.ext = "csv"

\* the orders in which a set can be listed
Listings(S) ==
    { l \in SeqsOfLen(S, Cardinality(S)) : \A i, j \in DOMAIN l : i # j => l[i] # l[j] }

\* file_list = glob.glob(data_path, recursive=True): the matching paths, in
\* the order the directory scan yields them
Discover ==
    /\ pc = "discover"
    /\ \E l \in Listings({p \in DOMAIN fs : glob_matches(p)}) :
          file_list' = Bound(l)
    /\ pc' = "load"
    /\ UNCHANGED <<fs, error, station_name, header_row, cleaned_data, acc,
                   all_data, my_big_dataset, rosses_point_data>>

\* one iteration of [read_clean_csv(file) for file in file_list]
LoadFile ==
    /\ pc = "load"
    /\ Len(acc) < Len(file_list.val)
    /\ LET r == read_clean_csv(fs, file_list.val[Len(acc) + 1])
       IN IF r.kind = "raise"
          THEN /\ error' = <<r>>
               /\ pc' = "error"
               /\ UNCHANGED acc
          ELSE /\ acc' = Append(acc, r.val)
               /\ UNCHANGED <<error, pc>>
    /\ UNCHANGED <<fs, station_name, header_row, cleaned_data, file_list,
                   all_data, my_big_dataset, rosses_point_data>>

\* the comprehension ends and all_data is bound;
\* my_big_dataset = pd.concat(all_data, ignore_index=True)
Assemble ==
    /\ pc = "load"
    /\ Len(acc) = Len(file_list.val)
    /\ all_data' = Bound(acc)
    /\ LET r == concat(acc)
       IN IF r.kind = "raise"
          THEN /\ error' = <<r>>
               /\ pc' = "error"
               /\ UNCHANGED my_big_dataset
          ELSE /\ my_big_dataset' = Bound(r.val)
               /\ pc' = "fillna"
               /\ UNCHANGED error
    /\ UNCHANGED <<fs, station_name, header_row, cleaned_data, file_list,
                   acc, rosses_point_data>>

\* my_big_dataset.fillna("NaN", inplace=True)
FillNa ==
    /\ pc = "fillna"
    /\ my_big_dataset' = Bound(fillna(my_big_dataset.val, Str(str_NaN)))
    /\ pc' = "to_datetime"
    /\ UNCHANGED <<fs, error, station_name, header_row, cleaned_data,
                   file_list, acc, all_data, rosses_point_data>>

\* my_big_dataset['date'] = pd.to_datetime(my_big_dataset['date'], format=...)
ToDatetime ==
    /\ pc = "to_datetime"
    /\ LET r == to_datetime_date(my_big_dataset.val)
       IN IF r.kind = "raise"
          THEN /\ error' = <<r>>
               /\ pc' = "error"
               /\ UNCHANGED my_big_dataset
          ELSE /\ my_big_dataset' = Bound(r.val)
               /\ pc' = "drop_duplicates"
               /\ UNCHANGED error
    /\ UNCHANGED <<fs, station_name, header_row, cleaned_data, file_list,
                   acc, all_data, rosses_point_data>>

\* my_big_dataset.drop_duplicates(inplace=True)
DropDuplicates ==
    /\ pc = "drop_duplicates"
    /\ my_big_dataset' = Bound(drop_duplicates(my_big_dataset.val))
    /\ pc' = "filter"
    /\ UNCHANGED <<fs, error, station_name, header_row, cleaned_data,
                   file_list, acc, all_data, rosses_point_data>>

\* rosses_point_data = my_big_dataset[my_big_dataset['station'] == 'ROCHES POINT']
Filter ==
    /\ pc = "filter"
    /\ LET r == filter_station(my_big_dataset.val, str_ROCHES_POINT)
       IN IF r.kind = "raise"
          THEN /\ error' = <<r>>
               /\ pc' = "error"
               /\ UNCHANGED rosses_point_data
          ELSE /\ rosses_point_data' = Bound(r.val)
               /\ pc' = "done"
               /\ UNCHANGED error
    /\ UNCHANGED <<fs, station_name, header_row, cleaned_data, file_list,
                   acc, all_data, my_big_dataset>>

Next ==
    \/ Discover
    \/ LoadFile
    \/ Assemble
    \/ FillNa
    \/ ToDatetime
    \/ DropDuplicates
    \/ Filter

Spec == Init /\ [][Next]_vars

----------------------------------------------------------------------------
(* Properties of the scanners and of the loader (test cell, SpecTest)      *)

\* the file the test cell reads
test_file == fs[path_hly275]

\* tok, a lower-case token, occurs in the line when case is disregarded
HasToken(line, tok) ==
    \E i \in 1..Len(line) :
        /\ i + Len(tok) - 1 <= Len(line)
        /\ \A k \in DOMAIN tok : LowerChar(line[i + k - 1]) = tok[k]
HasBothTokens(line) == HasToken(line, str_date) /\ HasToken(line, str_wdsp)
HasOneToken(line) ==
    (HasToken(line, str_date) \/ HasToken(line, str_wdsp)) /\ ~HasBothTokens(line)
NoHeaderLine(file) == \A i \in DOMAIN file : ~HasBothTokens(file[i])

\* C1: detect_header_row returns k exactly when line k (counted from 0) is
\* the first line that holds both 'date' and 'wdsp' after lower-casing; a
\* line holding one token only is never returned, and no line before the
\* returned one holds both.
C1_FirstHeaderLine ==
    header_row.bound =>
        /\ \A k \in 0..(Len(test_file) - 1) :
              (header_row.val = Some(k)) <=>
                 /\ HasBothTokens(test_file[k + 1])
                 /\ \A i \in 1..k : ~HasBothTokens(test_file[i])
        /\ header_row.val # None =>
              /\ header_row.val[1] \in 0..(Len(test_file) - 1)
              /\ ~HasOneToken(test_file[header_row.val[1] + 1])

\* C1 witness: row 2 is returned after a line with 'date' only and a line
\* with 'wdsp' only
C1_Witness ==
    /\ header_row.bound
    /\ header_row.val = Some(2)
    /\ HasToken(test_file[1], str_date) /\ ~HasToken(test_file[1], str_wdsp)
    /\ HasToken(test_file[2], str_wdsp) /\ ~HasToken(test_file[2], str_date)

\* C2 (as claimed): on a file without a header line detect_header_row does
\* not complete normally with a sentinel: whenever it has returned, the file
\* has a header line.
C2_Original ==
    header_row.bound => ~NoHeaderLine(test_file)

\* the exception read_clean_csv raises for a file without header
IsNoHeaderError(e, file_path) ==
    /\ e # NoError
    /\ e[1].kind = "raise"
    /\ e[1].exc = "ValueError"
    /\ Len(e[1].msg) = 2
    /\ e[1].msg[2] = file_path

\* C2 (amended): on a file without a header line (the empty file included)
\* detect_header_row returns None as its normal result and raises nothing;
\* it is its caller read_clean_csv that raises, a ValueError naming the
\* file path, and no table is returned.
C2_NoneThenValueError ==
    NoHeaderLine(test_file) =>
        /\ header_row.bound => header_row.val = None
        /\ pc = "test_load" => header_row.bound /\ error = NoError
        /\ pc # "done"
        /\ pc = "error" => /\ IsNoHeaderError(error, path_hly275)
                           /\ ~cleaned_data.bound

\* C2 witness: a non-empty file without header line, the load has raised
C2_Witness ==
    /\ NoHeaderLine(test_file)
    /\ test_file # << >>
    /\ \E i \in DOMAIN test_file : HasOneToken(test_file[i])
    /\ header_row.bound /\ header_row.val = None
    /\ pc = "error"

\* the lines that start with the label
StartsWithLabel(line) ==
    /\ Len(line) >= Len(str_Station_Name)
    /\ \A k \in DOMAIN str_Station_Name : line[k] = str_Station_Name[k]

\* the whole of the line after its first Len(label) characters
AfterLabel(line) ==
    [k \in 1..(Len(line) - Len(str_Station_Name)) |-> line[Len(str_Station_Name) + k]]

\* C3 (as claimed): when some line starts with 'Station Name:',
\* extract_station_name returns, for the first such line, the whole of the
\* line after the label, stripped and upper-cased.
C3_WholeRestOfLine ==
    station_name.bound =>
        \A i \in DOMAIN test_file :
            (/\ StartsWithLabel(test_file[i])
             /\ \A j \in 1..(i - 1) : ~StartsWithLabel(test_file[j]))
            => station_name.val = Some(upper(strip(AfterLabel(test_file[i]))))

\* C10 (as claimed): every row of a table read_clean_csv returns has a
\* non-null, upper-cased station equal to the extractor's result, also when
\* the file has no 'Station Name:' line.
C10_StationNonNull ==
    cleaned_data.bound =>
        LET df == cleaned_data.val
            j  == ColIdx(df.columns, str_station)
        IN /\ j # 0
           /\ \A i \in DOMAIN df.rows :
                 /\ df.rows[i][j].kind = "str"
                 /\ station_name.val = Some(df.rows[i][j].val)
                 /\ \A k \in DOMAIN df.rows[i][j].val :
                       df.rows[i][j].val[k] \notin Range(LowerChars)

\* C10 (amended): every row of a table read_clean_csv returns has a station
\* equal to the extractor's result for the file: a non-null str without
\* lower-case letters when a line starts with 'Station Name:', and None on
\* every row when no line does.
C10_StationIsExtractorResult ==
    cleaned_data.bound =>
        LET df == cleaned_data.val
            j  == ColIdx(df.columns, str_station)
        IN /\ j # 0
           /\ \A i \in DOMAIN df.rows :
                 IF \E l \in DOMAIN test_file : StartsWithLabel(test_file[l])
                 THEN /\ df.rows[i][j].kind = "str"
                      /\ station_name.val = Some(df.rows[i][j].val)
                      /\ \A k \in DOMAIN df.rows[i][j].val :
                            df.rows[i][j].val[k] \notin Range(LowerChars)
                 ELSE /\ df.rows[i][j].kind = "none"
                      /\ station_name.val = None

\* C10 witness: a table with a row was returned for a file that has a header
\* line and no 'Station Name:' line
C10_Witness ==
    /\ cleaned_data.bound
    /\ cleaned_data.val.rows # << >>
    /\ \A l \in DOMAIN test_file : ~StartsWithLabel(test_file[l])
    /\ cleaned_data.val.rows[1][ColIdx(cleaned_data.val.columns, str_station)].kind = "none"

----------------------------------------------------------------------------
(* Properties of the run (Spec)                                            *)

RECURSIVE TotalRows(_)
\* the number of rows of the frames together
TotalRows(frames) ==
    IF frames = << >> THEN 0 ELSE Len(frames[1].rows) + TotalRows(Tail(frames))

\* the number of rows of the frames before frame f
Offset(frames, f) == TotalRows(SubSeq(frames, 1, f - 1))

IsDense(index) ==
    \A i \in DOMAIN index : index[i].kind = "int" /\ index[i].val = i - 1

NoDuplicateRows(df) ==
    \A i, k \in DOMAIN df.rows : i # k => ~RowEq(df.rows[i], df.rows[k])

HeaderlessDiscovered ==
    /\ file_list.bound
    /\ \E i \in DOMAIN file_list.val : NoHeaderLine(fs[file_list.val[i]])

\* what C4 says apart from the error raised: the run never gets past the
\* loading loop, nothing is bound, no headerless file is passed over
AbortsInLoad ==
    /\ pc \in {"load", "error"}
    /\ ~all_data.bound /\ ~my_big_dataset.bound /\ ~rosses_point_data.bound
    /\ Len(acc) < Len(file_list.val)
    /\ \A i \in DOMAIN acc : ~NoHeaderLine(fs[file_list.val[i]])
    /\ pc = "error" => error # NoError

C5_ColumnUnion ==
    /\ (all_data.bound /\ all_data.val # << >>) => my_big_dataset.bound
    /\ pc = "fillna" =>
          LET frames == all_data.val
              u      == my_big_dataset.val
          IN /\ Range(u.columns) = UNION {Range(frames[f].columns) : f \in DOMAIN frames}
             /\ \A j, k \in DOMAIN u.columns : j # k => u.columns[j] # u.columns[k]
             /\ Len(u.rows) = TotalRows(frames)
             /\ \A f \in DOMAIN frames : \A i \in DOMAIN frames[f].rows :
                   \A j \in DOMAIN u.columns :
                      LET cell == u.rows[Offset(frames, f) + i][j]
                          k    == ColIdx(frames[f].columns, u.columns[j])
                      IN IF k = 0 THEN cell.kind = "nan"
                         ELSE CellEq(cell, frames[f].rows[i][k])

\* C5 witness: two frames with rows, each with a column the other lacks
C5_Witness ==
    /\ pc = "fillna"
    /\ Len(all_data.val) = 2
    /\ all_data.val[1].rows # << >> /\ all_data.val[2].rows # << >>
    /\ Range(all_data.val[1].columns) \ Range(all_data.val[2].columns) # {}
    /\ Range(all_data.val[2].columns) \ Range(all_data.val[1].columns) # {}

\* C6: after assembly the row labels of the unified table are 0, 1, ...,
\* N-1 for the N rows of the frames together.
C6_DenseIndex ==
    pc = "fillna" =>
        /\ Len(my_big_dataset.val.index) = TotalRows(all_data.val)
        /\ Len(my_big_dataset.val.rows) = TotalRows(all_data.val)
        /\ IsDense(my_big_dataset.val.index)

\* C6 witness: two frames with rows were assembled, so label 0 occurs in
\* both frames' own indexes
C6_Witness ==
    /\ pc = "fillna"
    /\ Len(all_data.val) = 2
    /\ all_data.val[1].rows # << >> /\ all_data.val[2].rows # << >>
    /\ all_data.val[1].index[1] = IntLabel(0)
    /\ all_data.val[2].index[1] = IntLabel(0)

\* the positions of the rows that no earlier row equals
FirstOccurrences(df) ==
    {i \in DOMAIN df.rows : \A k \in 1..(i - 1) : ~RowEq(df.rows[k], df.rows[i])}

\* the k-th smallest element of a set of numbers
Kth(S, k) == CHOOSE x \in S : Cardinality({y \in S : y < x}) = k - 1

\* C7: the drop_duplicates step leaves no two rows equal in every column;
\* of each group of equal rows it keeps exactly the first, and the rows kept
\* stay in their order.
C7_DropDuplicates ==
    [][pc = "drop_duplicates" =>
        LET old  == my_big_dataset.val
            new  == my_big_dataset'.val
            keep == FirstOccurrences(old)
        IN /\ NoDuplicateRows(new)
           /\ Len(new.rows) = Cardinality(keep)
           /\ new.columns = old.columns
           /\ \A k \in DOMAIN new.rows :
                 /\ RowEq(new.rows[k], old.rows[Kth(keep, k)])
                 /\ new.index[k] = old.index[Kth(keep, k)]
    ]_vars

\* C7 witness: duplicate elimination has removed a row
C7_Witness ==
    /\ pc = "filter"
    /\ Len(my_big_dataset.val.rows) < TotalRows(all_data.val)

\* the frame that row pos (counted from 1) of the unified table came from
SourceFrame(frames, pos) ==
    CHOOSE f \in DOMAIN frames :
        Offset(frames, f) < pos /\ pos <= Offset(frames, f) + Len(frames[f].rows)

\* the cell of the named column in the frame row that became row pos of the
\* unified table; NaN when the frame has no such column
SourceCell(frames, pos, name) ==
    LET f == SourceFrame(frames, pos)
        k == ColIdx(frames[f].columns, name)
    IN IF k = 0 THEN NaN ELSE frames[f].rows[pos - Offset(frames, f)][k]

\* a calendar instant
IsInstant(t) ==
    /\ t.month \in 1..12
    /\ t.day \in 1..DaysInMonth(t.year, t.month)
    /\ t.hour \in 0..23
    /\ t.minute \in 0..59

\* C8: in the normalised table the date of every row is a Timestamp of a
\* calendar instant or NaT, never a str; the rows whose date was missing
\* before fillna wrote the placeholder over it have NaT.
C8_TimestampParsed ==
    pc \in {"filter", "done"} =>
        LET u == my_big_dataset.val
            j == ColIdx(u.columns, str_date)
        IN /\ j # 0
           /\ \A i \in DOMAIN u.rows :
                 /\ \/ u.rows[i][j].kind = "nat"
                    \/ u.rows[i][j].kind = "ts" /\ IsInstant(u.rows[i][j].val)
                 /\ isnull(SourceCell(all_data.val, u.index[i].val + 1, str_date))
                       => u.rows[i][j].kind = "nat"

\* C8 witness: a row whose date was missing in its file survives with NaT
\* beside a row with a parsed Timestamp
C8_Witness ==
    /\ pc = "done"
    /\ LET u == my_big_dataset.val
           j == ColIdx(u.columns, str_date)
       IN /\ \E i \in DOMAIN u.rows :
                /\ u.rows[i][j].kind = "nat"
                /\ isnull(SourceCell(all_data.val, u.index[i].val + 1, str_date))
          /\ \E i \in DOMAIN u.rows : u.rows[i][j].kind = "ts"

\* the columns of a core export and of an export with the extended column
str_vis == <<"v","i","s">>
CoreColumns     == {str_date, str_wdsp, str_station}
ExtendedColumns == {str_date, str_wdsp, str_vis, str_station}

\* frames a and b of all_data are a core file and an extended file, each
\* with rows, with two different station names and no row repeated
EndToEndCase(a, b) ==
    LET A == all_data.val[a]
        B == all_data.val[b]
    IN /\ Range(A.columns) = CoreColumns
       /\ Range(B.columns) = ExtendedColumns
       /\ A.rows # << >> /\ B.rows # << >>
       /\ A.rows[1][ColIdx(A.columns, str_station)].kind = "str"
       /\ B.rows[1][ColIdx(B.columns, str_station)].kind = "str"
       /\ A.rows[1][ColIdx(A.columns, str_station)].val
             # B.rows[1][ColIdx(B.columns, str_station)].val
       /\ NoDuplicateRows(A) /\ NoDuplicateRows(B)

\* C9 (as claimed): for a core file A and an extended file B with distinct
\* stations and no repeated row, the normalised table has all n+m rows,
\* labels 0..n+m-1, a station on every row, B's values in the extended
\* column on B's rows, a missing marker there on A's rows, and no duplicate
\* rows.
C9_EndToEnd ==
    (/\ pc = "done"
     /\ Len(all_data.val) = 2)
    => \A a, b \in {1, 2} :
          (a # b /\ EndToEndCase(a, b)) =>
             LET frames == all_data.val
                 u      == my_big_dataset.val
                 v      == ColIdx(u.columns, str_vis)
                 st     == ColIdx(u.columns, str_station)
             IN /\ Len(u.rows) = TotalRows(frames)
                /\ IsDense(u.index)
                /\ st # 0 /\ v # 0
                /\ \A i \in DOMAIN u.rows : u.rows[i][st].kind = "str"
                /\ \A i \in DOMAIN frames[b].rows :
                      LET own == frames[b].rows[i][ColIdx(frames[b].columns, str_vis)]
                      IN ~isnull(own) => CellEq(u.rows[Offset(frames, b) + i][v], own)
                /\ \A i \in DOMAIN frames[a].rows :
                      isnull(u.rows[Offset(frames, a) + i][v])
                /\ NoDuplicateRows(u)

\* no line of the file starts with the label
NoStationLine(file) == \A l \in DOMAIN file : ~StartsWithLabel(file[l])

\* the run has aborted while loading the files
AbortedInLoad == pc = "error" /\ ~all_data.bound

\* C11: for a file without a line starting with 'Station Name:',
\* extract_station_name returns None; read_clean_csv returns the file's
\* table with None in 'station' on every row, and when it raises for such a
\* file the file has no header line or pd.read_csv has rejected it; and
\* pd.concat accepts the tables loaded, those of such files included.
C11_AbsentStationNoAbort ==
    file_list.bound =>
        /\ \A i \in DOMAIN file_list.val :
              LET file == fs[file_list.val[i]]
              IN NoStationLine(file) =>
                    /\ extract_station_name(file) = None
                    /\ i \in DOMAIN acc =>
                          LET df == acc[i]
                              j  == ColIdx(df.columns, str_station)
                          IN /\ j # 0
                             /\ \A k \in DOMAIN df.rows : df.rows[k][j].kind = "none"
                    /\ (AbortedInLoad /\ i = Len(acc) + 1) =>
                          IF NoHeaderLine(file)
                          THEN IsNoHeaderError(error, file_list.val[i])
                          ELSE /\ error[1].exc \in {"ParserError", "EmptyDataError"}
                               /\ read_csv(file, detect_header_row(file)[1]).kind = "raise"
        /\ (all_data.bound /\ all_data.val # << >>) =>
              /\ my_big_dataset.bound
              /\ pc = "fillna" => Len(my_big_dataset.val.rows) = TotalRows(all_data.val)

\* C11 witness: a file without station line, with rows, was loaded beside a
\* file with a station line, and the unified table was built
C11_Witness ==
    /\ my_big_dataset.bound
    /\ Len(file_list.val) = 2
    /\ \E i \in {1, 2} :
          /\ NoStationLine(fs[file_list.val[i]])
          /\ all_data.val[i].rows # << >>
          /\ ~NoStationLine(fs[file_list.val[3 - i]])

\* C12: when glob finds no .csv file under data/ the run ends in an error,
\* the ValueError pd.concat raises for the empty list, and no unified,
\* normalised or filtered table is ever bound.
C12_EmptyDiscoveryAborts ==
    (file_list.bound /\ file_list.val = << >>) =>
        /\ ~my_big_dataset.bound
        /\ ~rosses_point_data.bound
        /\ pc \in {"load", "error"}
        /\ all_data.bound => pc = "error"
        /\ pc = "error" =>
              /\ all_data = Bound(<< >>)
              /\ error # NoError
              /\ error[1].exc = "ValueError"
              /\ error[1].msg = <<"No objects to concatenate">>

\* C12 witness: nothing was discovered although data/ holds a file, and the
\* run has ended in the error
C12_Witness ==
    /\ file_list = Bound(<< >>)
    /\ \E p \in DOMAIN fs : p.dir[1] = "data"
    /\ pc = "error"
    /\ error # NoError

SourceHasColumn(frames, pos, name) ==
    ColIdx(frames[SourceFrame(frames, pos)].columns, name) # 0

SourceFile(i) ==
    fs[file_list.val[SourceFrame(all_data.val, my_big_dataset.val.index[i].val + 1)]]

\* the rows of the normalised table read from a file whose extracted station
\* name is S
RowsOfStation(S) ==
    {i \in DOMAIN my_big_dataset.val.rows : extract_station_name(SourceFile(i)) = Some(S)}

\* C14: the filter by station == 'ROCHES POINT' returns the rows of the
\* normalised table that were read from the files whose extracted station
\* name is ROCHES POINT, all of them and no others, in the order and with
\* the labels they have in the normalised table.
C14_FilterByStation ==
    pc = "done" =>
        LET u    == my_big_dataset.val
            r    == rosses_point_data.val
            keep == RowsOfStation(str_ROCHES_POINT)
        IN /\ r.columns = u.columns
           /\ Len(r.rows) = Cardinality(keep)
           /\ Len(r.index) = Cardinality(keep)
           /\ \A k \in DOMAIN r.rows :
                 /\ r.rows[k] = u.rows[Kth(keep, k)]
                 /\ r.index[k] = u.index[Kth(keep, k)]

\* C14 witness: the normalised table has rows of a ROCHES POINT file and
\* rows of another file, and the filter has run
C14_Witness ==
    /\ pc = "done"
    /\ RowsOfStation(str_ROCHES_POINT) # {}
    /\ RowsOfStation(str_ROCHES_POINT) # DOMAIN my_big_dataset.val.rows
    /\ rosses_point_data.val.rows # << >>

str_13_Aug_2003_0100 == <<"1","3","-","A","u","g","-","2","0","0","3"," ","0","1",":","0","0">>

\* the rows of the table whose date field in the file was '13-aug-2003 01:00'
RowsOf13Aug ==
    {i \in DOMAIN my_big_dataset.val.rows :
        SourceCell(all_data.val, my_big_dataset.val.index[i].val + 1, str_date)
            = Str(str_13_aug_2003_0100)}

\* the date of row i of the table
DateOf(i) == my_big_dataset.val.rows[i][ColIdx(my_big_dataset.val.columns, str_date)]

IsParsed13Aug(c) ==
    /\ c.kind = "ts"
    /\ c.val = [year |-> 2003, month |-> 8, day |-> 13, hour |-> 1, minute |-> 0]

C16_DropDuplicatesIdempotent ==
    pc = "filter" =>
        LET once  == my_big_dataset.val
            twice == drop_duplicates(once)
        IN /\ twice.columns = once.columns
           /\ twice.rows = once.rows
           /\ twice.index = once.index

\* C16 witness: drop_duplicates has removed a row and left more than one
C16_Witness ==
    /\ pc = "filter"
    /\ Len(my_big_dataset.val.rows) > 1
    /\ Len(my_big_dataset.val.rows) < TotalRows(all_data.val)

\* the labels are whole numbers of 0..n-1, each greater than the one before
IsIncreasingWithin(index, n) ==
    /\ \A k \in DOMAIN index : index[k].kind = "int" /\ index[k].val \in 0..(n - 1)
    /\ \A k \in 1..(Len(index) - 1) : index[k].val < index[k + 1].val

\* every row kept by drop_duplicates has the label it had before
KeepsLabels(old, new) ==
    /\ Len(new.index) = Cardinality(FirstOccurrences(old))
    /\ \A k \in DOMAIN new.index :
          new.index[k] = old.index[Kth(FirstOccurrences(old), k)]

\* C17 (as claimed): drop_duplicates leaves every surviving row the label
\* it had in the unified table, so that the labels are an increasing
\* selection of 0..N-1, and they are 0..M-1 only when no row was removed.
C17_DenseOnlyIfNothingRemoved ==
    [][pc = "drop_duplicates" =>
        LET old == my_big_dataset.val
            new == my_big_dataset'.val
        IN /\ KeepsLabels(old, new)
           /\ IsIncreasingWithin(new.index, Len(old.rows))
           /\ IsDense(new.index) => Len(new.rows) = Len(old.rows)
    ]_vars

\* C17 (amended): drop_duplicates leaves every surviving row the label it
\* had in the unified table, so that the labels are an increasing selection
\* of 0..N-1; they are 0..M-1 exactly when every row removed came after
\* every row kept (no row removed, or only rows at the end of the table).
C17_DenseIffRemovedAtEnd ==
    [][pc = "drop_duplicates" =>
        LET old  == my_big_dataset.val
            new  == my_big_dataset'.val
            keep == FirstOccurrences(old)
        IN /\ IsDense(old.index)
           /\ KeepsLabels(old, new)
           /\ IsIncreasingWithin(new.index, Len(old.rows))
           /\ IsDense(new.index) <=> (\A i \in keep : \A r \in DOMAIN old.rows \ keep : i < r)
    ]_vars

\* C17 witness: a row was removed from the middle of the table and the
\* labels of the rows kept have a gap
C17_Witness ==
    /\ pc = "filter"
    /\ Len(my_big_dataset.val.rows) < TotalRows(all_data.val)
    /\ ~IsDense(my_big_dataset.val.index)

====
